---- MODULE Spec2Model ----
(***************************************************************************)
(* Model of countable_additivity_montecarlo.py: the dyadic intervals       *)
(* A_n = (1 - 2^(-n+1), 1 - 2^(-n)), the indicator of their union, the     *)
(* Monte Carlo mean, and the script's loop over the truncation sizes.      *)
(*                                                                         *)
(* Numbers.  JAX computes in float32 (x64 is off by default): int32 arange *)
(* promoted with the weak Python floats 1.0 and 2.0 gives float32 arrays.  *)
(* A float32 value v in [0,1] is held as the integer v * 2^FracBits        *)
(* (fixed point); every operation computes the exact result and rounds it  *)
(* to 24 significant bits, ties to even, as IEEE-754 binary32 does.        *)
(* Integer-valued floats (a sum of 0.0/1.0 indicators, a sample count) are *)
(* held unscaled.  The result of jnp.mean can be finer than the fixed      *)
(* point (1/17, 1/100000), so it is held as a float: the record            *)
(* [sig |-> m, exp |-> e] is the float32 m * 2^(-e), 2^23 <= m < 2^24, and *)
(* [sig |-> 0, exp |-> 0] is 0.0.                                          *)
(***************************************************************************)
EXTENDS Integers, Sequences, FiniteSets, TLC

VARIABLES pc, idx, N, intervals, true_measure, key, subkey, mc_est, output,
          calls, splits, num_samples, xs, vals, mean_op

vars == <<pc, idx, N, intervals, true_measure, key, subkey, mc_est, output,
          calls, splits, num_samples, xs, vals, mean_op>>

(* ------------------------------ bounds -------------------------------- *)
\* largest N handed to generate_intervals by the call-by-call specification
MaxN == 27
\* fixed-point bits kept below the float32 significand
GuardBits == 3
\* sample vectors are drawn over the ends and midpoints of the first
\* SampleRows rows and of the last row, a point past the last row and the
\* largest sample
SampleRows == 1
\* longest sample vector drawn in the call-by-call specification
MaxSamples == 3
\* the script's hit counts are drawn from the multiples of
\* num_samples / HitParts strictly between 0 and num_samples, besides
\* those of its two runs
HitParts == 1

(* --------------------------- float32 numbers --------------------------- *)
\* significand width of binary32 (23 stored bits and the hidden one)
MantissaBits == 24

FracBits == MantissaBits + GuardBits

\* 2^k, and 1 for k <= 0
Pow2(k) == IF k <= 0 THEN 1 ELSE 2 ^ k

\* 1.0
One == Pow2(FracBits)

\* position of the leading bit of v, 1 <= v < 2^30
Log2(v) == CHOOSE p \in 0..29 : Pow2(p) <= v /\ v < Pow2(p + 1)

\* round-to-nearest, ties-to-even, of the exact value v to 24 significant bits
RoundBits(v) ==
    IF v < Pow2(MantissaBits) THEN v
    ELSE LET ulp == Pow2(Log2(v) - (MantissaBits - 1))
             q   == v \div ulp
             r   == v % ulp
         IN  IF 2 * r > ulp \/ (2 * r = ulp /\ q % 2 = 1)
             THEN (q + 1) * ulp
             ELSE q * ulp

\* the rounding of an expression: x is evaluated once, then rounded (the
\* operators below named ...Bits are applied in the same way)
RoundF32(x) == CHOOSE r \in {RoundBits(v) : v \in {x}} : TRUE

\* 2.0 ** (-k) for an int32 k in 0..FracBits: a power of two, exact in float32
PowNeg(k) == Pow2(FracBits - k)

\* a - b in float32, for a >= b
SubF32(a, b) == RoundF32(a - b)

\* a + b in float32
AddF32(a, b) == RoundF32(a + b)

\* the float32 m * 2^(-e)
F32(m, e) == [sig |-> m, exp |-> e]

\* 0.0
Zero == F32(0, 0)

\* the result of an empty mean (0.0 / 0.0)
NaN == F32(0 - 1, 0)

\* the float32 q * 2^(-e) for a rounded significand 2^23 <= q <= 2^24
RenormBits(q, e) ==
    IF q = Pow2(MantissaBits)
    THEN F32(Pow2(MantissaBits - 1), e - 1)
    ELSE F32(q, e)

Renorm(q, e) ==
    CHOOSE r \in {RenormBits(u, w) : u \in {q}, w \in {e}} : TRUE

\* the fixed-point float32 x with leading bit L as a float
FloatBits(x, L) ==
    IF L >= MantissaBits - 1
    THEN F32(x \div Pow2(L - (MantissaBits - 1)),
             FracBits - (L - (MantissaBits - 1)))
    ELSE F32(x * Pow2((MantissaBits - 1) - L),
             FracBits + (MantissaBits - 1) - L)

\* the fixed-point float32 x as a float
Float(x) ==
    IF x = 0 THEN Zero
    ELSE CHOOSE r \in {FloatBits(u, Log2(u)) : u \in {x}} : TRUE

\* c / n in float32 for the integer-valued floats 0 <= c <= n < 2^18; 0/0
\* is nan.  The quotient is normalised to c0 / n in [1, 2), its 24
\* significant bits are taken by division in three stages (8, 8 and 7
\* bits, so that no product leaves 32 bits), and the rest is rounded to
\* nearest, ties to even.
DivBits(c, n) ==
    IF n = 0 THEN NaN
    ELSE IF c = 0 THEN Zero
    ELSE LET e  == CHOOSE k \in 0..MantissaBits :
                      /\ c * Pow2(k) >= n
                      /\ k > 0 => c * Pow2(k - 1) < n
             c0 == c * Pow2(e)
             q0 == c0 \div n
             r0 == c0 % n
             q1 == q0 * 256 + (r0 * 256) \div n
             r1 == (r0 * 256) % n
             q2 == q1 * 256 + (r1 * 256) \div n
             r2 == (r1 * 256) % n
             q3 == q2 * 128 + (r2 * 128) \div n
             r3 == (r2 * 128) % n
             m  == IF 2 * r3 > n \/ (2 * r3 = n /\ q3 % 2 = 1)
                   THEN q3 + 1 ELSE q3
         IN  Renorm(m, e + (MantissaBits - 1))

DivF32(c, n) == CHOOSE r \in {DivBits(u, w) : u \in {c}, w \in {n}} : TRUE

\* c * r in float32 for the integer-valued float 0 <= c < 2^18 and the
\* float r.  The exact product (hi * 2^12 + lo) * 2^(-r.exp) is formed in
\* two halves, so that no product leaves 32 bits, and its d bits below the
\* 24 significant ones are rounded to nearest, ties to even.
MulBits(c, r) ==
    IF r = NaN THEN NaN
    ELSE IF c = 0 \/ r.sig = 0 THEN Zero
    ELSE LET a   == r.sig \div Pow2(12)
             b   == r.sig % Pow2(12)
             hi  == c * a + (c * b) \div Pow2(12)
             lo  == (c * b) % Pow2(12)
             d   == Log2(hi) - 11
             q   == IF d <= 12
                    THEN hi * Pow2(12 - d) + lo \div Pow2(d)
                    ELSE hi \div Pow2(d - 12)
             rem == IF d <= 12
                    THEN lo % Pow2(d)
                    ELSE (hi % Pow2(d - 12)) * Pow2(12) + lo
             m   == IF d > 0 /\ (2 * rem > Pow2(d)
                                   \/ (2 * rem = Pow2(d) /\ q % 2 = 1))
                    THEN q + 1 ELSE q
         IN  Renorm(m, r.exp - d)

MulF32(c, r) == CHOOSE p \in {MulBits(u, w) : u \in {c}, w \in {r}} : TRUE

(* ------------------------- generate_intervals -------------------------- *)
\* n = jnp.arange(1, N + 1)
Arange(lo, hi) == [i \in 1..(hi - lo) |-> lo + i - 1]

\* faulty variant: rights written with the exponent -(n + 1), so neighbours overlap
generate_intervals_Overlapping(NN) ==
    LET n      == Arange(1, NN + 1)
        lefts  == [i \in 1..NN |-> SubF32(One, PowNeg(n[i] - 1))]
        rights == [i \in 1..NN |-> SubF32(One, PowNeg(n[i] + 1))]
    IN  [i \in 1..NN |-> <<lefts[i], rights[i]>>]

\* row n is [1.0 - 2.0 ** (-(n - 1)), 1.0 - 2.0 ** (-n)]
generate_intervals(NN) ==
    LET n      == Arange(1, NN + 1)
        lefts  == [i \in 1..NN |-> SubF32(One, PowNeg(n[i] - 1))]
        rights == [i \in 1..NN |-> SubF32(One, PowNeg(n[i]))]
    IN  [i \in 1..NN |-> <<lefts[i], rights[i]>>]

(* --------------------------- indicator_union --------------------------- *)
\* faulty variant: the left comparison written <=, so left ends count as inside
indicator_union_Closed(x, ivs) ==
    LET lefts      == [i \in 1..Len(ivs) |-> ivs[i][1]]
        rights     == [i \in 1..Len(ivs) |-> ivs[i][2]]
        inside_any == \E i \in 1..Len(ivs) : lefts[i] <= x /\ x < rights[i]
    IN  IF inside_any THEN One ELSE 0

indicator_union(x, ivs) ==
    LET lefts      == [i \in 1..Len(ivs) |-> ivs[i][1]]
        rights     == [i \in 1..Len(ivs) |-> ivs[i][2]]
        inside_any == \E i \in 1..Len(ivs) : lefts[i] < x /\ x < rights[i]
    IN  IF inside_any THEN One ELSE 0

\* jax.vmap(indicator_union, in_axes=(0, None)): map over xs, intervals shared
indicator_union_vec(v, ivs) ==
    [i \in 1..Len(v) |-> indicator_union(v[i], ivs)]

(* ------------------------ jnp.sum and jnp.mean -------------------------- *)
\* jnp.sum of a float32 vector: the running sum is rounded after every add
SumF32(v) ==
    LET acc[i \in 0..Len(v)] == IF i = 0 THEN 0 ELSE AddF32(acc[i - 1], v[i])
    IN  acc[Len(v)]

\* jnp.sum of a vector of 0.0/1.0 values: an integer-valued float32, exact
\* while below 2^24, held unscaled
SumInd(v) ==
    LET acc[i \in 0..Len(v)] ==
            IF i = 0 THEN 0 ELSE acc[i - 1] + (v[i] \div One)
    IN  acc[Len(v)]

\* jnp.mean is lax.div(sum, float32(n)) with n a compile-time constant of
\* the jitted reduction.  XLA may keep the division or rewrite a division
\* by a constant into a multiplication by its float32 reciprocal,
\* according to the build; the two round differently.
MeanOps == {"divide", "multiply"}

\* the reduction is compiled at its first call and the compiled code is
\* used by the later calls on vectors of the same shape
Compiled(op) == IF op = "uncompiled" THEN MeanOps ELSE {op}

\* jnp.mean of n values 0.0/1.0 of which h are 1.0, compiled as op
MeanOfHits(op, h, n) ==
    IF op = "divide" THEN DivF32(h, n) ELSE MulF32(h, DivF32(1, n))

\* faulty variant: the sum divided by one more than the number of entries
MeanF32_OffByOne(op, v) == MeanOfHits(op, SumInd(v), Len(v) + 1)

\* jnp.mean(vals): the sum divided by the number of entries
MeanF32(op, v) == MeanOfHits(op, SumInd(v), Len(v))

\* lengths = intervals[:, 1] - intervals[:, 0]
Lengths(ivs) == [i \in 1..Len(ivs) |-> SubF32(ivs[i][2], ivs[i][1])]

\* true_measure = jnp.sum(lengths)
TrueMeasure(ivs) == SumF32(Lengths(ivs))

(* --------------------------- mc_measure_union --------------------------- *)
\* the values of jax.random.uniform(minval=0.0, maxval=1.0) in float32:
\* bits >> 9 becomes the 23-bit fraction of a float in [1,2), less 1.0, so
\* the multiples of 2^(-23) in [0,1).  The set has 2^23 elements, so it is
\* given by its membership test.
IsSampleValue(x) ==
    /\ 0 <= x
    /\ x < One
    /\ x % Pow2(FracBits - (MantissaBits - 1)) = 0

\* v is a possible result of
\* jax.random.uniform(key, shape=(n,), minval=0.0, maxval=1.0) for some key
InUniform(v, n) ==
    /\ DOMAIN v = 1..n
    /\ \A i \in 1..n : IsSampleValue(v[i])

\* the float32 sample made of the 23 bits k
Sample(k) == k * Pow2(FracBits - (MantissaBits - 1))

\* jax.random.uniform(PRNGKey(0), shape=(n,)) for n = 1..4 as threefry2x32
\* gives it (bits >> 9 of each entry), jax_threefry_partitionable off
KeyZeroBits ==
    << <<3510272>>,
       <<1814417, 6745482>>,
       <<8097703, 2639741, 5310240>>,
       <<8097703, 1888770, 5310240, 2486231>> >>

\* the same with jax_threefry_partitionable on
KeyZeroBitsPartitionable ==
    << <<7949607>>,
       <<7949607, 8208923>>,
       <<7949607, 8208923, 2787463>>,
       <<7949607, 8208923, 2787463, 3931476>> >>

\* what the sampler returns for the key PRNGKey(0) and the shape (n,)
KeyZeroUniform(n) ==
    IF n \in 1..Len(KeyZeroBits)
    THEN { [i \in 1..n |-> Sample(KeyZeroBits[n][i])],
           [i \in 1..n |-> Sample(KeyZeroBitsPartitionable[n][i])] }
    ELSE {}

\* the sample values the drawn vectors are made of: for the first
\* SampleRows rows and the last row of ivs both ends and the midpoint, a
\* point past the last row, and the largest sample 1 - 2^(-23)
DrawValues(ivs) ==
    LET last == Len(ivs)
        rows == {k \in 1..last : k <= SampleRows \/ k = last}
        cand == {ivs[k][1] : k \in rows} \cup {ivs[k][2] : k \in rows}
                   \cup {(ivs[k][1] + ivs[k][2]) \div 2 : k \in rows}
                   \cup {(ivs[last][2] + One) \div 2, Sample(Pow2(MantissaBits - 1) - 1)}
    IN  {x \in cand : IsSampleValue(x)}

\* the results of jax.random.uniform(key, shape=(n,)) that are drawn: the
\* vectors over DrawValues(ivs) and the sampler's own for PRNGKey(0)
Draws(n, ivs) == [1..n -> DrawValues(ivs)] \cup KeyZeroUniform(n)

\* the default of the parameter num_samples
DefaultNumSamples == 200000

\* faulty variant: the call leaves num_samples out, so the default is used
CallNumSamples_Omitted == DefaultNumSamples

\* the argument num_samples=100_000 of the script's call
CallNumSamples == 100000

\* the number of the 100_000 samples of the script's i-th call that lie in
\* the union: threefry2x32 from PRNGKey(0), split and sampled as the loop
\* does, jax_threefry_partitionable off (printed 0.498450, 0.751730,
\* 0.874170, 0.967710, 0.999090, 1.000000)
RunHits == <<49845, 75173, 87417, 96771, 99909, 100000>>

\* the same with jax_threefry_partitionable on
RunHitsPartitionable == <<49996, 75003, 87607, 96785, 99901, 99999>>

\* the hit counts drawn for the i-th call with n samples: those of the two
\* runs and the multiples of n / HitParts strictly between 0 and n (any
\* count in 0..n is possible for some sample vector)
HitChoices(i, n) ==
    {h \in {RunHits[i], RunHitsPartitionable[i]} : h <= n}
        \cup {(k * n) \div HitParts : k \in 1..(HitParts - 1)}

\* the body of mc_measure_union once xs is drawn
mc_measure_union(op, v, ivs) == MeanF32(op, indicator_union_vec(v, ivs))

(* ------------------------------ PRNG keys ------------------------------- *)
\* a key is the seed followed by the path of split outputs that led to it
PRNGKey(seed) == <<seed>>

\* jax.random.split(key): two fresh keys
split(k) == <<Append(k, 0), Append(k, 1)>>

(* ------------------------------- printing ------------------------------- *)
\* f"{float(v):.6f}" of the float v < 2: v in millionths, rounded half to
\* even on the exact value; nan is given as -1.  v * 10^6 is
\* sig * 15625 / 2^(exp - 6); the product (hi * 2^12 + lo) is formed in two
\* halves, so that no product leaves 32 bits.
Fmt6Bits(v) ==
    IF v = NaN THEN 0 - 1
    ELSE IF v.sig = 0 \/ v.exp > 47 THEN 0
    ELSE LET a  == v.sig \div Pow2(12)
             b  == v.sig % Pow2(12)
             hi == a * 15625 + (b * 15625) \div Pow2(12)
             lo == (b * 15625) % Pow2(12)
             s  == v.exp - 18
             q  == hi \div Pow2(s)
             rh == hi % Pow2(s)
             up == IF s = 0 THEN 2 * lo > Pow2(12)
                   ELSE rh > Pow2(s - 1) \/ (rh = Pow2(s - 1) /\ lo > 0)
             tie == IF s = 0 THEN 2 * lo = Pow2(12)
                    ELSE rh = Pow2(s - 1) /\ lo = 0
         IN  IF up \/ (tie /\ q % 2 = 1) THEN q + 1 ELSE q

Fmt6(v) == CHOOSE r \in {Fmt6Bits(u) : u \in {v}} : TRUE

\* faulty variant: the closing print() is missing
Block_NoBlank(NN, tm, est) ==
    << <<"N", NN>>, <<"sum", Fmt6(Float(tm))>>, <<"mc", Fmt6(est)>> >>

\* the four print calls of one iteration
Block(NN, tm, est) ==
    << <<"N", NN>>, <<"sum", Fmt6(Float(tm))>>, <<"mc", Fmt6(est)>>,
       <<"blank">> >>

(* ------------------------------ the script ------------------------------ *)
\* for N in [1, 2, 3, 5, 10, 20]
Ns == <<1, 2, 3, 5, 10, 20>>

Init ==
    /\ pc = "for"
    /\ mean_op = "uncompiled"
    /\ idx = 0
    /\ N = 0
    /\ intervals = <<>>
    /\ true_measure = 0
    /\ key = PRNGKey(0)
    /\ subkey = <<>>
    /\ mc_est = Zero
    /\ output = <<>>
    /\ calls = <<>>
    /\ splits = <<>>
    /\ num_samples = 0
    /\ xs = <<>>
    /\ vals = <<>>

\* the loop takes the next truncation size
ForNext ==
    /\ pc = "for"
    /\ idx < Len(Ns)
    /\ idx' = idx + 1
    /\ N' = Ns[idx + 1]
    /\ pc' = "intervals"
    /\ UNCHANGED <<intervals, true_measure, key, subkey, mc_est, output,
                   calls, splits, num_samples, xs, vals, mean_op>>

\* the list is exhausted: the script ends
ForExit ==
    /\ pc = "for"
    /\ idx = Len(Ns)
    /\ pc' = "done"
    /\ UNCHANGED <<idx, N, intervals, true_measure, key, subkey, mc_est,
                   output, calls, splits, num_samples, xs, vals, mean_op>>

\* intervals = generate_intervals(N)
BuildIntervals ==
    /\ pc = "intervals"
    /\ intervals' = generate_intervals(N)
    /\ pc' = "measure"
    /\ UNCHANGED <<idx, N, true_measure, key, subkey, mc_est, output,
                   calls, splits, num_samples, xs, vals, mean_op>>

\* lengths = ...; true_measure = jnp.sum(lengths)
ComputeTrueMeasure ==
    /\ pc = "measure"
    /\ true_measure' = TrueMeasure(intervals)
    /\ pc' = "split"
    /\ UNCHANGED <<idx, N, intervals, key, subkey, mc_est, output,
                   calls, splits, num_samples, xs, vals, mean_op>>

\* faulty variant: _, subkey = jax.random.split(key): the carried key is not replaced
SplitKey_KeepKey ==
    /\ pc = "split"
    /\ subkey' = split(key)[2]
    /\ splits' = Append(splits, key)
    /\ pc' = "mc"
    /\ UNCHANGED <<idx, N, intervals, true_measure, key, mc_est, output,
                   calls, num_samples, xs, vals, mean_op>>

\* key, subkey = jax.random.split(key)
SplitKey ==
    /\ pc = "split"
    /\ key' = split(key)[1]
    /\ subkey' = split(key)[2]
    /\ splits' = Append(splits, key)
    /\ pc' = "mc"
    /\ UNCHANGED <<idx, N, intervals, true_measure, mc_est, output,
                   calls, num_samples, xs, vals, mean_op>>

\* mc_est = mc_measure_union(subkey, intervals, num_samples=100_000).
\* The 100_000 samples are not enumerated: the mean of their indicator
\* values is MeanOfHits(op, h, 100_000) for the number h of samples in the
\* union.
MCEstimate ==
    /\ pc = "mc"
    /\ mean_op' \in Compiled(mean_op)
    /\ \E h \in HitChoices(idx, CallNumSamples) :
          mc_est' = MeanOfHits(mean_op', h, CallNumSamples)
    /\ calls' = Append(calls, [key |-> subkey, num_samples |-> CallNumSamples,
                               rows |-> Len(intervals)])
    /\ pc' = "print"
    /\ UNCHANGED <<idx, N, intervals, true_measure, key, subkey, output,
                   splits, num_samples, xs, vals>>

\* the four prints
PrintBlock ==
    /\ pc = "print"
    /\ output' = output \o Block(N, true_measure, mc_est)
    /\ pc' = "for"
    /\ UNCHANGED <<idx, N, intervals, true_measure, key, subkey, mc_est,
                   calls, splits, num_samples, xs, vals, mean_op>>

Next ==
    \/ ForNext
    \/ ForExit
    \/ BuildIntervals
    \/ ComputeTrueMeasure
    \/ SplitKey
    \/ MCEstimate
    \/ PrintBlock

Spec == Init /\ [][Next]_vars

\* the interpreter runs the script to its end
FairSpec == Spec /\ WF_vars(Next)

(* ----------------------- the functions, call by call -------------------- *)
\* a caller of the four functions with any N in 1..MaxN and any sample
\* vector of 1..MaxSamples entries; mc_measure_union is taken line by line
InitFn ==
    /\ pc = "generate_intervals"
    /\ mean_op = "uncompiled"
    /\ N \in 1..MaxN
    /\ num_samples \in 1..MaxSamples
    /\ idx = 0
    /\ intervals = <<>>
    /\ true_measure = 0
    /\ key = PRNGKey(0)
    /\ subkey = <<>>
    /\ mc_est = Zero
    /\ output = <<>>
    /\ calls = <<>>
    /\ splits = <<>>
    /\ xs = <<>>
    /\ vals = <<>>

FnGenerate ==
    /\ pc = "generate_intervals"
    /\ intervals' = generate_intervals(N)
    /\ pc' = "sum"
    /\ UNCHANGED <<idx, N, true_measure, key, subkey, mc_est, output,
                   calls, splits, num_samples, xs, vals, mean_op>>

FnSum ==
    /\ pc = "sum"
    /\ true_measure' = TrueMeasure(intervals)
    /\ pc' = "uniform"
    /\ UNCHANGED <<idx, N, intervals, key, subkey, mc_est, output,
                   calls, splits, num_samples, xs, vals, mean_op>>

\* xs = jax.random.uniform(key, shape=(num_samples,), minval=0.0, maxval=1.0)
FnUniform ==
    /\ pc = "uniform"
    /\ xs' \in Draws(num_samples, intervals)
    /\ pc' = "vec"
    /\ UNCHANGED <<idx, N, intervals, true_measure, key, subkey, mc_est,
                   output, calls, splits, num_samples, vals, mean_op>>

\* vals = indicator_union_vec(xs, intervals)
FnIndicatorVec ==
    /\ pc = "vec"
    /\ vals' = indicator_union_vec(xs, intervals)
    /\ pc' = "mean"
    /\ UNCHANGED <<idx, N, intervals, true_measure, key, subkey, mc_est,
                   output, calls, splits, num_samples, xs, mean_op>>

\* return jnp.mean(vals)
FnMean ==
    /\ pc = "mean"
    /\ mean_op' \in Compiled(mean_op)
    /\ mc_est' = MeanF32(mean_op', vals)
    /\ pc' = "returned"
    /\ UNCHANGED <<idx, N, intervals, true_measure, key, subkey, output,
                   calls, splits, num_samples, xs, vals>>

NextFn ==
    \/ FnGenerate
    \/ FnSum
    \/ FnUniform
    \/ FnIndicatorVec
    \/ FnMean

SpecFn == InitFn /\ [][NextFn]_vars

(* ============================== the claims ============================= *)
\* intervals holds the result of generate_intervals(N)
Built == pc \in {"sum", "uniform", "vec", "mean", "returned",
                 "measure", "split", "mc", "print"}

\* the exact dyadic value 1 - 2^(-k), k in 0..FracBits
Dyadic(k) == One - Pow2(FracBits - k)

\* the rows of ivs that contain x strictly
RowsHolding(x, ivs) ==
    {i \in 1..Len(ivs) : ivs[i][1] < x /\ x < ivs[i][2]}

\* C1: for every N >= 1 the rows of generate_intervals(N) are pairwise
\* disjoint subintervals of [0,1]: 0 <= left < right <= 1 in every row,
\* right_i <= left_j for rows i < j, and no point lies strictly inside two rows.
C1_DisjointSubintervals ==
    Built =>
        /\ \A i \in 1..Len(intervals) :
              /\ 0 <= intervals[i][1]
              /\ intervals[i][1] < intervals[i][2]
              /\ intervals[i][2] <= One
        /\ \A i, j \in 1..Len(intervals) :
              i < j => intervals[i][2] <= intervals[j][1]
        /\ \A x \in DrawValues(intervals) :
              Cardinality(RowsHolding(x, intervals)) <= 1

\* C3: generate_intervals(N) returns exactly N rows [left, right], row n
\* being A_n = (1 - 2^(-n+1), 1 - 2^(-n)); so left_1 = 0, row n has length
\* 2^(-n), and right_n = left_(n+1) for n < N.
C3_RowsAreAn ==
    Built =>
        /\ Len(intervals) = N
        /\ \A n \in 1..Len(intervals) :
              /\ Len(intervals[n]) = 2
              /\ intervals[n] = <<Dyadic(n - 1), Dyadic(n)>>
              /\ intervals[n][2] - intervals[n][1] = Pow2(FracBits - n)
        /\ intervals[1][1] = 0
        /\ \A n \in 1..(Len(intervals) - 1) :
              intervals[n][2] = intervals[n + 1][1]

\* the end points of the rows
Ends(ivs) == {ivs[i][1] : i \in 1..Len(ivs)} \cup {ivs[i][2] : i \in 1..Len(ivs)}

\* the end point that follows e
NextEnd(e, E) == CHOOSE f \in E : f > e /\ \A g \in E : g > e => f <= g

\* the Lebesgue measure of the union of the rows, in exact arithmetic: the
\* total length of the segments between consecutive end points that lie in
\* some row
RECURSIVE CoveredLength(_, _, _)
CoveredLength(S, E, ivs) ==
    IF S = {} THEN 0
    ELSE LET e == CHOOSE x \in S : TRUE
             f == NextEnd(e, E)
             c == \E i \in 1..Len(ivs) : ivs[i][1] <= e /\ f <= ivs[i][2]
         IN  (IF c THEN f - e ELSE 0) + CoveredLength(S \ {e}, E, ivs)

UnionMeasure(ivs) ==
    LET E == Ends(ivs)
    IN  CoveredLength({e \in E : \E f \in E : f > e}, E, ivs)

\* C2: for every N of the loop, true_measure (the sum of right - left over
\* the N rows) equals the measure of the union of the N intervals, which is
\* exactly 1 - 2^(-N), the telescoped right_N - left_1.
C2_TrueMeasureIsUnionMeasure ==
    pc \in {"split", "mc", "print"} =>
        /\ true_measure = UnionMeasure(intervals)
        /\ true_measure = Dyadic(N)
        /\ true_measure = intervals[N][2] - intervals[1][1]

\* the last size's measure has been summed: 1 - 2^(-20)
C2_Witness ==
    /\ pc = "split"
    /\ N = 20
    /\ Len(intervals) = 20
    /\ true_measure = Dyadic(20)

\* C4: indicator_union gives 1.0 or 0.0, and 1.0 exactly when some row has
\* left < x < right (both strict); indicator_union_vec gives, position by
\* position, what indicator_union gives for that sample and the same rows.
C4_IndicatorIsMembership ==
    pc \in {"mean", "returned"} =>
        /\ Len(vals) = Len(xs)
        /\ InUniform(xs, num_samples)
        /\ \A i \in 1..Len(xs) :
              /\ vals[i] \in {0, One}
              /\ vals[i] = One <=> RowsHolding(xs[i], intervals) # {}
              /\ vals[i] = indicator_union(xs[i], intervals)

\* five rows and a vector with one sample inside the last row, one on its
\* right end and one past it
C4_Witness ==
    /\ pc = "mean"
    /\ N = 5
    /\ \E i, j, k \in 1..Len(xs) :
          /\ RowsHolding(xs[i], intervals) = {5}
          /\ vals[i] = One
          /\ xs[j] = intervals[5][2]
          /\ vals[j] = 0
          /\ xs[k] > intervals[5][2]
          /\ vals[k] = 0

\* the number of samples lying strictly inside some row
Hits == Cardinality({i \in 1..Len(xs) : RowsHolding(xs[i], intervals) # {}})

\* C5 as stated: the value mc_measure_union returns equals
\* (number of samples strictly inside some interval) / num_samples.
C5_MeanIsExactRatio ==
    pc = "returned" => mc_est.sig * num_samples = Hits * Pow2(mc_est.exp)

\* C5 as amended: the value returned is a float32 in [0,1], 0.0 exactly
\* when no sample is inside, within a relative error of 2^(-23) of
\* hits / num_samples, and, where the division is kept, within half a unit
\* in its last place of that ratio (so equal to it when it is a float32).
C5_MeanIsRoundedRatio ==
    pc = "returned" =>
        LET exact == Hits * Pow2(mc_est.exp)
            got   == mc_est.sig * num_samples
            err   == IF got >= exact THEN got - exact ELSE exact - got
        IN  /\ \/ mc_est = Zero
               \/ /\ Pow2(MantissaBits - 1) <= mc_est.sig
                  /\ mc_est.sig < Pow2(MantissaBits)
            /\ mc_est = Zero <=> Hits = 0
            /\ mc_est.sig <= Pow2(mc_est.exp)
            /\ err <= exact \div Pow2(MantissaBits - 1)
            /\ mean_op = "divide" => 2 * err <= num_samples
            /\ mc_est = MeanOfHits(mean_op, Hits, num_samples)

\* one hit among three samples: the ratio 1/3 is not a float32
C5_Witness ==
    /\ pc = "returned"
    /\ num_samples = 3
    /\ Hits = 1
    /\ mc_est = F32(11184811, 25)
    /\ mc_est.sig * 3 # Pow2(mc_est.exp)

\* the number of iterations that have printed their block
BlocksDone == IF pc \in {"for", "done"} THEN idx ELSE idx - 1

\* the printed lines are the blocks of the sizes done so far, in order
OutputIsBlocks ==
    /\ Len(output) = 4 * BlocksDone
    /\ \A k \in 1..BlocksDone :
          /\ output[4 * k - 3] = <<"N", Ns[k]>>
          /\ output[4 * k - 2] = <<"sum", Fmt6(Float(Dyadic(Ns[k])))>>
          /\ output[4 * k - 1][1] = "mc"
          /\ Len(output[4 * k - 1]) = 2
          /\ output[4 * k] = <<"blank">>
    /\ pc = "done" =>
          /\ idx = 6
          /\ Len(output) = 24
          /\ ~ENABLED Next

\* the steps of an iteration follow each other in the order of the source,
\* and only the print step writes
StepOrder ==
    /\ <<pc, pc'>> \in { <<"for", "intervals">>, <<"intervals", "measure">>,
                         <<"measure", "split">>, <<"split", "mc">>,
                         <<"mc", "print">>, <<"print", "for">>,
                         <<"for", "done">> }
    /\ pc = "for" /\ pc' = "intervals" => idx' = idx + 1 /\ N' = Ns[idx']
    /\ pc # "print" => output' = output
    /\ pc = "print" =>
          output' = output \o << <<"N", N>>,
                                 <<"sum", Fmt6(Float(true_measure))>>,
                                 <<"mc", Fmt6(mc_est)>>, <<"blank">> >>

\* C6: one loop over the sizes 1, 2, 3, 5, 10, 20 in that order; each
\* iteration builds the intervals, computes the true measure, samples and
\* averages, then prints, in that order; one block of four lines per size;
\* after the sixth block the script ends and prints nothing more.
C6_LoopOrderAndOutput ==
    /\ []OutputIsBlocks
    /\ [][StepOrder]_vars
    /\ <>(pc = "done")

\* the script has ended with six blocks, the last for N = 20
C6_Witness ==
    /\ pc = "done"
    /\ Len(output) = 24
    /\ output[21] = <<"N", 20>>
    /\ output[22] = <<"sum", 999999>>
    /\ output[3] = <<"mc", 498450>>
    /\ output[23] = <<"mc", 1000000>>

\* C7: in every iteration N >= 1, the interval array has shape (N, 2) with
\* left < right in every row, every call of mc_measure_union passes the
\* script's num_samples > 0 and never the default, and no mean is taken
\* over an empty vector (no nan is computed or printed).
C7_NoMalformedInput ==
    /\ idx >= 1 => N = Ns[idx] /\ N >= 1
    /\ pc \in {"measure", "split", "mc", "print"} =>
          /\ Len(intervals) = N
          /\ Len(intervals) >= 1
          /\ \A i \in 1..Len(intervals) :
                Len(intervals[i]) = 2 /\ intervals[i][1] < intervals[i][2]
    /\ \A i \in 1..Len(calls) :
          /\ calls[i].num_samples = 100000
          /\ calls[i].num_samples > 0
          /\ calls[i].num_samples # DefaultNumSamples
          /\ calls[i].rows = Ns[i]
    /\ mc_est # NaN
    /\ \A i \in 1..Len(output) :
          output[i][1] \in {"sum", "mc"} => output[i][2] # Fmt6(NaN)

\* the sixth call has been made, on the 20 rows
C7_Witness ==
    /\ pc = "print"
    /\ N = 20
    /\ Len(calls) = 6
    /\ calls[6].rows = 20
    /\ mc_est.sig > 0

\* C8: starting from PRNGKey(0), every iteration replaces the carried key
\* by the first output of split(key) and samples with the second; the
\* carried key is never handed to the sampler, no key is split twice, and
\* (split giving fresh keys) the subkeys sampled with are pairwise distinct.
C8_KeyDiscipline ==
    /\ key = IF splits = <<>> THEN PRNGKey(0)
             ELSE split(splits[Len(splits)])[1]
    /\ splits # <<>> =>
          /\ splits[1] = PRNGKey(0)
          /\ subkey = split(splits[Len(splits)])[2]
    /\ \A i \in 1..(Len(splits) - 1) : splits[i + 1] = split(splits[i])[1]
    /\ Len(calls) = (IF pc \in {"for", "done", "print"} THEN idx ELSE idx - 1)
    /\ \A i \in 1..Len(calls) :
          /\ calls[i].key = split(splits[i])[2]
          /\ calls[i].key # key
          /\ \A j \in 1..Len(splits) : calls[i].key # splits[j]
    /\ \A i, j \in 1..Len(splits) : i < j => splits[i] # splits[j]
    /\ \A i, j \in 1..Len(calls) : i < j => calls[i].key # calls[j].key
    /\ pc = "done" => Len(calls) = 6

\* six splits and six sampler calls have happened
C8_Witness ==
    /\ pc = "done"
    /\ Len(splits) = 6
    /\ Len(calls) = 6
    /\ calls[6].key = <<0, 0, 0, 0, 0, 0, 1>>

====
